---- MODULE Spec2Model ----
(***************************************************************************)
(* Model of the products application: the Product, Order and OrderItem     *)
(* tables (src/products/models.py) with their derived total_amount         *)
(* properties, and the admin surface that writes them and serves the       *)
(* permission-gated Order detail page (src/products/admin.py).             *)
(*                                                                         *)
(* One action per admin request.  Primary keys are handed out by           *)
(* per-table counters and are never reused.  The clock moves on with every *)
(* Order added, so a later save never reads the time an Order was created  *)
(* at.  The actor of a detail request is the request's user as the         *)
(* authentication middleware resolved it; its flags are inputs of the      *)
(* request, and the request writes nothing.  last keeps the kind of the    *)
(* last write request for the properties to refer to.                      *)
(***************************************************************************)
EXTENDS Integers, FiniteSets, Sequences, TLC

\* ---------------------------------------------------------------- bounds
MaxUsers    == 2   \* primary keys ever handed out to users
MaxProducts == 2   \* primary keys ever handed out to products
MaxOrders   == 2   \* primary keys ever handed out to orders
MaxItems    == 2   \* primary keys ever handed out to order items
MaxInline   == 1   \* inline rows an Order form adds, changes or deletes
MaxPrice    == 2   \* prices submitted are 1..MaxPrice
MaxCount    == 2   \* counts submitted are MinCount..MaxCount

MinCount == 0 - 1  \* a negative count is submitted to see it refused

NULL == 0          \* an empty foreign key; primary keys start at 1

Titles == {"Widget"}

VARIABLES
    users,        \* set of primary keys of the accounts
    products,     \* pk -> [title, price]
    orders,       \* pk -> [user, created]
    items,        \* pk -> [order, product, count]
    nextUser, nextProduct, nextOrder, nextItem,   \* next primary key of each table
    now,          \* the clock; every reading auto_now_add takes is later than the last
    last          \* the last write request: the view that wrote, or "rejected"

vars == <<users, products, orders, items, nextUser, nextProduct, nextOrder,
          nextItem, now, last>>

data == <<users, products, orders, items, nextUser, nextProduct, nextOrder, nextItem, now>>

\* ---------------------------------------------------------------- helpers
Without(f, S) == [k \in DOMAIN f \ S |-> f[k]]

SeqsUpTo(S, n) == UNION {[1..k -> S] : k \in 0..n}

RECURSIVE SumList(_)
SumList(s) == IF s = <<>> THEN 0 ELSE Head(s) + SumList(Tail(s))

\* ---------------------------------------------------------------- models.py
\* a subtotal that leaves the quantity out
OrderItem_total_amount_unit(it) == products[it.product].price

\* OrderItem.total_amount
OrderItem_total_amount(it) == products[it.product].price * it.count

\* OrderItem.objects.all(): the primary keys of the rows up to k, in order
RECURSIVE OrderItem_objects(_)
OrderItem_objects(k) ==
    IF k = 0 THEN <<>>
    ELSE IF k \in DOMAIN items
         THEN Append(OrderItem_objects(k - 1), k)
         ELSE OrderItem_objects(k - 1)

\* a related manager that forgets its filter: every row of the table
orderitem_set_unfiltered(o) == OrderItem_objects(nextItem - 1)

\* order.orderitem_set.all(): the rows whose order is o
orderitem_set(o) ==
    SelectSeq(OrderItem_objects(nextItem - 1), LAMBDA i : items[i].order = o)

\* Order.total_amount
Order_total_amount(o) ==
    SumList([k \in 1..Len(orderitem_set(o)) |->
                OrderItem_total_amount(items[orderitem_set(o)[k]])])

\* on_delete=DO_NOTHING: deleting the referenced rows takes nothing with it
Order_user_do_nothing(us) == {}
OrderItem_order_do_nothing(os) == {}

\* a cascade that takes the whole content of every order holding the products
OrderItem_product_whole_order(ps) ==
    {i \in DOMAIN items :
        \E j \in DOMAIN items : items[j].product \in ps /\ items[j].order = items[i].order}

\* on_delete=CASCADE: the rows deleted along with the rows they reference
Order_user_cascade(us)        == {o \in DOMAIN orders : orders[o].user \in us}
OrderItem_order_cascade(os)   == {i \in DOMAIN items : items[i].order \in os}
OrderItem_product_cascade(ps) == {i \in DOMAIN items : items[i].product \in ps}

\* DateTimeField(auto_now=True) would take the clock on every save
created_auto_now(order, add) == now

\* Order.created, auto_now_add: the clock when the row is added, kept on update
created_pre_save(order, add) == IF add THEN now ELSE order.created

\* PositiveIntegerField: zero and up
CountAccepted(c) == c >= 0

\* the required foreign keys: set, and naming an existing row
UserRefAccepted(u)    == u /= NULL /\ u \in users
OrderRefAccepted(o)   == o /= NULL /\ o \in DOMAIN orders
ProductRefAccepted(p) == p /= NULL /\ p \in DOMAIN products

\* ---------------------------------------------------------------- inputs
Prices     == 1..MaxPrice
Counts     == MinCount..MaxCount
UserRefs    == (1..(nextUser - 1)) \cup {NULL}
ProductRefs == (1..(nextProduct - 1)) \cup {NULL}
OrderRefs   == (1..(nextOrder - 1)) \cup {NULL}
Rows       == [product : ProductRefs, count : Counts]

\* the admin's record of the last write: the view that saved or deleted, or that
\* the form was refused
Done(op) == op
Rejected == "rejected"

Init ==
    /\ users = {}
    /\ products = <<>>
    /\ orders = <<>>
    /\ items = <<>>
    /\ nextUser = 1 /\ nextProduct = 1 /\ nextOrder = 1 /\ nextItem = 1
    /\ now = 0
    /\ last = Done("init")

\* ---------------------------------------------------------------- accounts
\* the account admin's add view
CreateUser ==
    /\ nextUser <= MaxUsers
    /\ users' = users \cup {nextUser}
    /\ nextUser' = nextUser + 1
    /\ last' = Done("add_user")
    /\ UNCHANGED <<products, orders, items, nextProduct, nextOrder, nextItem, now>>

\* the account admin's delete view (one row) and its delete_selected action
\* (the rows ticked in the list): Order.user and OrderItem.order cascade
DeleteUsers(us) ==
    /\ us /= {} /\ us \subseteq users
    /\ users' = users \ us
    /\ orders' = Without(orders, Order_user_cascade(us))
    /\ items' = Without(items, OrderItem_order_cascade(Order_user_cascade(us)))
    /\ last' = Done("delete_user")
    /\ UNCHANGED <<products, nextUser, nextProduct, nextOrder, nextItem, now>>

\* ---------------------------------------------------------------- ProductAdmin
AddProduct(t, pr) ==
    /\ nextProduct <= MaxProducts
    /\ products' = products @@ (nextProduct :> [title |-> t, price |-> pr])
    /\ nextProduct' = nextProduct + 1
    /\ last' = Done("add_product")
    /\ UNCHANGED <<users, orders, items, nextUser, nextOrder, nextItem, now>>

ChangeProduct(p, t, pr) ==
    /\ p \in DOMAIN products
    /\ products' = [products EXCEPT ![p] = [title |-> t, price |-> pr]]
    /\ last' = Done("change_product")
    /\ UNCHANGED <<users, orders, items, nextUser, nextProduct, nextOrder, nextItem, now>>

\* delete view (one row) and delete_selected (the rows ticked in the list), one
\* request either way: OrderItem.product cascades
DeleteProducts(ps) ==
    /\ ps /= {} /\ ps \subseteq DOMAIN products
    /\ products' = Without(products, ps)
    /\ items' = Without(items, OrderItem_product_cascade(ps))
    /\ last' = Done("delete_product")
    /\ UNCHANGED <<users, orders, nextUser, nextProduct, nextOrder, nextItem, now>>

\* ---------------------------------------------------------------- OrderItemAdmin
\* the form of an OrderItem: all three fields are required
OrderItemForms == [order : OrderRefs, product : ProductRefs, count : Counts]

\* an OrderItem whose order may be left empty (null=True, blank=True)
OrderItemAccepted_order_optional(f) ==
    /\ f.order = NULL \/ OrderRefAccepted(f.order)
    /\ ProductRefAccepted(f.product)
    /\ CountAccepted(f.count)

OrderItemAccepted(f) ==
    OrderRefAccepted(f.order) /\ ProductRefAccepted(f.product) /\ CountAccepted(f.count)

\* add view: a form that validates is saved, any other is shown again
AddOrderItem ==
    /\ nextItem <= MaxItems
    /\ \/ \E f \in OrderItemForms :
            /\ OrderItemAccepted(f)
            /\ items' = items @@ (nextItem :> f)
            /\ nextItem' = nextItem + 1
            /\ last' = Done("add_orderitem")
       \/ /\ ~ \A f \in OrderItemForms : OrderItemAccepted(f)
          /\ UNCHANGED <<items, nextItem>>
          /\ last' = Rejected
    /\ UNCHANGED <<users, products, orders, nextUser, nextProduct, nextOrder, now>>

ChangeOrderItem(i) ==
    /\ i \in DOMAIN items
    /\ \/ \E f \in OrderItemForms :
            /\ OrderItemAccepted(f)
            /\ items' = [items EXCEPT ![i] = f]
            /\ last' = Done("change_orderitem")
       \/ /\ ~ \A f \in OrderItemForms : OrderItemAccepted(f)
          /\ UNCHANGED items
          /\ last' = Rejected
    /\ UNCHANGED <<users, products, orders, nextUser, nextProduct, nextOrder, nextItem, now>>

\* delete view (one row) and delete_selected (the rows ticked in the list)
DeleteOrderItems(is) ==
    /\ is /= {} /\ is \subseteq DOMAIN items
    /\ items' = Without(items, is)
    /\ last' = Done("delete_orderitem")
    /\ UNCHANGED <<users, products, orders, nextUser, nextProduct, nextOrder, nextItem, now>>

\* ---------------------------------------------------------------- OrderAdmin
\* a row of OrderItemInline: the order is the form's, product and count are submitted
InlineRowAccepted(r) == ProductRefAccepted(r.product) /\ CountAccepted(r.count)

\* what the change view may submit for an existing inline row
InlineEdits ==
    {[delete |-> TRUE, product |-> NULL, count |-> 0]}
        \cup [delete : {FALSE}, product : ProductRefs, count : Counts]

\* the existing rows of o a form touches, n of them
InlineEditSets(o, n) ==
    UNION {[S -> InlineEdits] :
            S \in {T \in SUBSET {i \in DOMAIN items : items[i].order = o} :
                    Cardinality(T) = n}}

\* the rows a form adds when it touches n existing ones: the formset takes
\* MaxInline rows in all, and the table has primary keys left for MaxItems
NewRowSeqs(n) ==
    SeqsUpTo(Rows, IF MaxInline - n < MaxItems - nextItem + 1
                   THEN MaxInline - n ELSE MaxItems - nextItem + 1)

\* the Order form with its inline formset: the user, the existing rows it
\* changes or deletes, the rows it adds
OrderForms(o) ==
    UNION {[user : UserRefs, edits : InlineEditSets(o, n), rows : NewRowSeqs(n)] :
            n \in 0..MaxInline}

\* rows marked for deletion are not validated
OrderFormAccepted(f) ==
    /\ UserRefAccepted(f.user)
    /\ \A i \in DOMAIN f.edits : f.edits[i].delete \/ InlineRowAccepted(f.edits[i])
    /\ \A k \in 1..Len(f.rows) : InlineRowAccepted(f.rows[k])

\* the rows an accepted Order form adds, keyed from the next free primary key
NewInlineItems(o, rows) ==
    [k \in nextItem..(nextItem + Len(rows) - 1) |->
        [order |-> o, product |-> rows[k - nextItem + 1].product,
         count |-> rows[k - nextItem + 1].count]]

\* the rows left of the existing ones: deleted, changed, or as they were
EditedItems(o, edits) ==
    [i \in DOMAIN items \ {j \in DOMAIN edits : edits[j].delete} |->
        IF i \in DOMAIN edits
        THEN [order |-> o, product |-> edits[i].product, count |-> edits[i].count]
        ELSE items[i]]

\* an Order not yet saved
NewOrder == [user |-> NULL, created |-> NULL]

\* add view: the Order and its inline rows are saved together or not at all;
\* created is auto_now_add
AddOrder ==
    /\ nextOrder <= MaxOrders
    /\ \/ \E f \in OrderForms(NULL) :
            /\ OrderFormAccepted(f)
            /\ orders' = orders @@ (nextOrder :> [user |-> f.user,
                                   created |-> created_pre_save(NewOrder, TRUE)])
            /\ items' = items @@ NewInlineItems(nextOrder, f.rows)
            /\ nextOrder' = nextOrder + 1
            /\ nextItem' = nextItem + Len(f.rows)
            /\ now' = now + 1
            /\ last' = Done("add_order")
       \/ /\ ~ \A f \in OrderForms(NULL) : OrderFormAccepted(f)
          /\ UNCHANGED <<orders, items, nextOrder, nextItem, now>>
          /\ last' = Rejected
    /\ UNCHANGED <<users, products, nextUser, nextProduct>>

\* change view: user is the only field of Order on the form (created is not
\* editable and auto_now_add leaves it alone on update)
ChangeOrder(o) ==
    /\ o \in DOMAIN orders
    /\ \/ \E f \in OrderForms(o) :
            /\ OrderFormAccepted(f)
            /\ orders' = [orders EXCEPT ![o] = [user |-> f.user,
                                   created |-> created_pre_save(orders[o], FALSE)]]
            /\ items' = EditedItems(o, f.edits) @@ NewInlineItems(o, f.rows)
            /\ nextItem' = nextItem + Len(f.rows)
            /\ last' = Done("change_order")
       \/ /\ ~ \A f \in OrderForms(o) : OrderFormAccepted(f)
          /\ UNCHANGED <<orders, items, nextItem>>
          /\ last' = Rejected
    /\ UNCHANGED <<users, products, nextUser, nextProduct, nextOrder, now>>

\* delete view (one row) and delete_selected (the rows ticked in the list), one
\* request either way: OrderItem.order cascades
DeleteOrders(os) ==
    /\ os /= {} /\ os \subseteq DOMAIN orders
    /\ orders' = Without(orders, os)
    /\ items' = Without(items, OrderItem_order_cascade(os))
    /\ last' = Done("delete_order")
    /\ UNCHANGED <<users, products, nextUser, nextProduct, nextOrder, nextItem, now>>

\* ---------------------------------------------------------------- the detail page
\* The request's user: AnonymousUser, or an account with its flags and whether
\* products.view_order is among its own or its groups' permissions.
Anonymous == [authenticated |-> FALSE, is_active |-> FALSE, is_staff |-> FALSE,
              is_superuser |-> FALSE, view_order |-> FALSE]

Actors ==
    {Anonymous} \cup [authenticated : {TRUE}, is_active : BOOLEAN, is_staff : BOOLEAN,
                      is_superuser : BOOLEAN, view_order : BOOLEAN]

\* user.has_perms(("products.view_order",)): an active superuser has every
\* permission, an inactive account has none
has_permission(actor) ==
    actor.is_active /\ (actor.is_superuser \/ actor.view_order)

Answer(status, body) == [status |-> status, body |-> body]

\* what the template is given of the Order: its pk and fields, its rows one by
\* one as orderitem_set.all() lists them, and its total
OrderFields(o) ==
    [pk |-> o, user |-> orders[o].user, created |-> orders[o].created,
     lines |-> [k \in 1..Len(orderitem_set(o)) |->
                  [pk |-> orderitem_set(o)[k],
                   product |-> items[orderitem_set(o)[k]].product,
                   count |-> items[orderitem_set(o)[k]].count,
                   total_amount |-> OrderItem_total_amount(items[orderitem_set(o)[k]])]],
     total_amount |-> Order_total_amount(o)]

\* the <pk> of the URL is text: digits that read as a number, or anything else
NumericPk(n) == [numeric |-> TRUE, value |-> n]
MalformedPk  == [numeric |-> FALSE, value |-> NULL]

\* DetailView.get: get_object() filters on pk, which raises ValueError for text
\* that is no number (a server error), raises Http404 for a pk with no row, and
\* else the template is rendered with the object
DetailView_get(pk) ==
    IF ~pk.numeric
    THEN Answer("server_error", {})
    ELSE IF pk.value \in DOMAIN orders
         THEN Answer("ok", {OrderFields(pk.value)})
         ELSE Answer("not_found", {})

\* PermissionRequiredMixin.handle_no_permission: PermissionDenied for a logged-in
\* user, the login redirect otherwise
handle_no_permission(actor) ==
    IF actor.authenticated
    THEN Answer("forbidden", {})
    ELSE Answer("redirect_login", {})

\* a detail view without the permission mixin
OrderDetailView_unguarded(actor, pk) == DetailView_get(pk)

\* a detail view that looks the object up before it checks the permission
OrderDetailView_lookup_first(actor, pk) ==
    IF DetailView_get(pk).status /= "ok"
    THEN DetailView_get(pk)
    ELSE IF has_permission(actor) THEN DetailView_get(pk) ELSE handle_no_permission(actor)

\* OrderDetailView.dispatch: PermissionRequiredMixin comes first in the bases,
\* so its check runs before DetailView looks the object up
OrderDetailView(actor, pk) ==
    IF has_permission(actor)
    THEN DetailView_get(pk)
    ELSE handle_no_permission(actor)

\* the route of get_urls: admin_view lets active staff through to the view and
\* redirects everyone else to the admin login
products_order_detail(actor, pk) ==
    IF actor.is_active /\ actor.is_staff
    THEN OrderDetailView(actor, pk)
    ELSE Answer("redirect_login", {})

\* pks requested: every pk handed out so far, the next one, 0, and text that is
\* no number
DetailPks == {NumericPk(n) : n \in 0..nextOrder} \cup {MalformedPk}

Statuses == {"ok", "not_found", "server_error", "forbidden", "redirect_login"}

\* GET <pk>/detail, by any actor for any pk: answers and writes nothing
DetailRequest ==
    /\ \A actor \in Actors, pk \in DetailPks :
            products_order_detail(actor, pk).status \in Statuses
    /\ UNCHANGED vars

Next ==
    \/ CreateUser
    \/ \E us \in SUBSET users : DeleteUsers(us)
    \/ \E t \in Titles, pr \in Prices : AddProduct(t, pr)
    \/ \E p \in DOMAIN products, t \in Titles, pr \in Prices : ChangeProduct(p, t, pr)
    \/ \E ps \in SUBSET DOMAIN products : DeleteProducts(ps)
    \/ AddOrderItem
    \/ \E i \in DOMAIN items : ChangeOrderItem(i)
    \/ \E is \in SUBSET DOMAIN items : DeleteOrderItems(is)
    \/ AddOrder
    \/ \E o \in DOMAIN orders : ChangeOrder(o)
    \/ \E os \in SUBSET DOMAIN orders : DeleteOrders(os)
    \/ DetailRequest

Spec == Init /\ [][Next]_vars

\* ================================================================ properties
\* the rows whose order is o, and the arithmetic the properties are stated in
LinesOf(o) == {i \in DOMAIN items : items[i].order = o}

PriceTimesCount(i) == products[items[i].product].price * items[i].count

RECURSIVE SumOfLines(_)
SumOfLines(S) ==
    IF S = {} THEN 0
    ELSE LET i == CHOOSE x \in S : TRUE
         IN  PriceTimesCount(i) + SumOfLines(S \ {i})

RECURSIVE SumOfCounts(_)
SumOfCounts(S) ==
    IF S = {} THEN 0
    ELSE LET i == CHOOSE x \in S : TRUE
         IN  items[i].count + SumOfCounts(S \ {i})

\* C1: in every reachable state each OrderItem's total_amount is its product's
\* price times its count, and each Order's total_amount is the sum of the
\* total_amounts of exactly the rows whose order it is, 0 when it has none.
C1_TotalsAreSums ==
    /\ \A i \in DOMAIN items : OrderItem_total_amount(items[i]) = PriceTimesCount(i)
    /\ \A o \in DOMAIN orders : Order_total_amount(o) = SumOfLines(LinesOf(o))

\* an order of two rows for different products totalling 6, next to an order
\* with no rows totalling 0
C1_Witness ==
    \E o1, o2 \in DOMAIN orders :
        /\ o1 /= o2
        /\ Cardinality(LinesOf(o1)) = 2
        /\ \E i, j \in LinesOf(o1) : items[i].product /= items[j].product
        /\ Order_total_amount(o1) = 6
        /\ LinesOf(o2) = {}
        /\ Order_total_amount(o2) = 0

\* an actor holds products.view_order when it is a logged-in, active account
\* that is a superuser or has the permission itself or through a group
HoldsViewOrder(actor) ==
    actor.authenticated /\ actor.is_active /\ (actor.is_superuser \/ actor.view_order)

AuthorizationFailures == {"forbidden", "redirect_login"}

\* C2: in every reachable state, a request to the detail route for any pk by an
\* actor that does not hold products.view_order ends in an authorization
\* failure (403, or the redirect to the login page) and renders no Order field.
C2_DeniedWithoutPermission ==
    \A actor \in Actors, pk \in DetailPks :
        ~HoldsViewOrder(actor) =>
            /\ products_order_detail(actor, pk).status \in AuthorizationFailures
            /\ products_order_detail(actor, pk).body = {}

\* an order with rows that active staff without the permission are refused and
\* an anonymous visitor is sent to the login page for, while staff holding the
\* permission are shown its fields
C2_Witness ==
    \E pk \in DetailPks :
        /\ pk.numeric /\ pk.value \in DOMAIN orders
        /\ LinesOf(pk.value) /= {}
        /\ \E actor \in Actors :
              /\ actor.is_active /\ actor.is_staff /\ ~HoldsViewOrder(actor)
              /\ products_order_detail(actor, pk) = Answer("forbidden", {})
        /\ products_order_detail(Anonymous, pk) = Answer("redirect_login", {})
        /\ \E actor \in Actors :
              /\ HoldsViewOrder(actor)
              /\ products_order_detail(actor, pk).status = "ok"
              /\ \E shown \in products_order_detail(actor, pk).body :
                    Len(shown.lines) = Cardinality(LinesOf(pk.value))

\* C3: a step that deletes products (one, or several selected together)
\* removes exactly the rows that reference a deleted product; every order is
\* still there with the user and created it had, and its total_amount
\* afterwards is the sum over the rows it keeps.
C3_DeleteProductCascades ==
    [][\A ps \in SUBSET DOMAIN products :
          DeleteProducts(ps) =>
            /\ DOMAIN items' = {i \in DOMAIN items : items[i].product \notin ps}
            /\ \A i \in DOMAIN items' : items'[i] = items[i]
            /\ orders' = orders
            /\ \A o \in DOMAIN orders :
                  Order_total_amount(o)' =
                      SumOfLines({i \in LinesOf(o) : items[i].product \notin ps})]_vars

\* after a product was deleted: one of the two rows went with it, the other is
\* still in its order, which totals what that row is worth
C3_Witness ==
    /\ last = "delete_product"
    /\ Cardinality(DOMAIN products) = 1 /\ nextProduct = 3
    /\ Cardinality(DOMAIN items) = 1 /\ nextItem = 3
    /\ \E o \in DOMAIN orders : LinesOf(o) /= {} /\ Order_total_amount(o) = 4

\* C4: a step that deletes orders (one, or several selected together) removes
\* exactly the rows whose order is deleted and leaves every product, every
\* user, every other order and every row of another order as it was.
C4_DeleteOrderFrame ==
    [][\A os \in SUBSET DOMAIN orders :
          DeleteOrders(os) =>
            /\ DOMAIN items' = {i \in DOMAIN items : items[i].order \notin os}
            /\ \A i \in DOMAIN items' : items'[i] = items[i]
            /\ products' = products
            /\ users' = users
            /\ DOMAIN orders' = DOMAIN orders \ os
            /\ \A q \in DOMAIN orders' : orders'[q] = orders[q]]_vars

\* after an order was deleted with no user ever deleted: its row is gone, the
\* other order keeps its row, both products are still there
C4_Witness ==
    /\ last = "delete_order"
    /\ users = 1..(nextUser - 1)
    /\ Cardinality(DOMAIN orders) = 1 /\ nextOrder = 3
    /\ Cardinality(DOMAIN items) = 1 /\ nextItem = 3
    /\ Cardinality(DOMAIN products) = 2
    /\ \E o \in DOMAIN orders : LinesOf(o) /= {}

\* C5: a step that deletes users (one, or several selected together) removes
\* exactly the orders whose user is deleted and exactly the rows of those
\* orders; the orders of other users, their rows and all products are as they
\* were.
C5_DeleteUserCascades ==
    [][\A us \in SUBSET users :
          DeleteUsers(us) =>
            /\ users' = users \ us
            /\ DOMAIN orders' = {o \in DOMAIN orders : orders[o].user \notin us}
            /\ \A o \in DOMAIN orders' : orders'[o] = orders[o]
            /\ DOMAIN items' =
                  {i \in DOMAIN items : orders[items[i].order].user \notin us}
            /\ \A i \in DOMAIN items' : items'[i] = items[i]
            /\ products' = products]_vars

\* after a user was deleted: one order and its row are gone, the other user's
\* order and its row are still there
C5_Witness ==
    /\ last = "delete_user"
    /\ Cardinality(users) = 1 /\ nextUser = 3
    /\ Cardinality(DOMAIN orders) = 1 /\ nextOrder = 3
    /\ Cardinality(DOMAIN items) = 1 /\ nextItem = 3
    /\ \E o \in DOMAIN orders : orders[o].user \in users /\ LinesOf(o) /= {}

\* every row references an existing order and product, every order an existing user
ReferentialIntegrity ==
    /\ \A i \in DOMAIN items :
          items[i].order \in DOMAIN orders /\ items[i].product \in DOMAIN products
    /\ \A o \in DOMAIN orders : orders[o].user \in users

\* no form that leaves an OrderItem's order or product empty validates
EmptyReferenceRefused ==
    /\ \A f \in OrderItemForms :
          (f.order = NULL \/ f.product = NULL) => ~OrderItemAccepted(f)
    /\ \A r \in Rows : r.product = NULL => ~InlineRowAccepted(r)

\* C6: every step ends in a state with referential integrity; no write with an
\* empty order or product is accepted, and a rejected write changes no table.
C6_ReferentialIntegrity ==
    [][/\ ReferentialIntegrity'
       /\ EmptyReferenceRefused
       /\ last' = Rejected => UNCHANGED data]_vars

\* a form was rejected while orders, products and rows exist
C6_Witness ==
    /\ last = Rejected
    /\ DOMAIN items /= {}
    /\ Cardinality(DOMAIN orders) = 2
    /\ Cardinality(DOMAIN products) = 2

\* C7: a step that changes product p's price to pr changes the total_amount of
\* every order by (pr - old price) * count for each of its rows for p.
C7_TotalsFollowPrice ==
    [][\A p \in DOMAIN products, t \in Titles, pr \in Prices :
          ChangeProduct(p, t, pr) =>
            \A o \in DOMAIN orders :
                Order_total_amount(o)' =
                    Order_total_amount(o)
                        + (pr - products[p].price)
                            * SumOfCounts({i \in LinesOf(o) : items[i].product = p})]_vars

\* after a product was changed: an order created before holds a row of count 2
\* for a product priced 2, and totals what the current prices make it
C7_Witness ==
    /\ last = "change_product"
    /\ \E o \in DOMAIN orders, i \in DOMAIN items :
          /\ items[i].order = o
          /\ items[i].count = 2
          /\ products[items[i].product].price = 2
          /\ Order_total_amount(o) = SumOfLines(LinesOf(o))
          /\ Order_total_amount(o) >= 4

\* C8: every OrderItem has a count of at least 1.
C8_CountStrictlyPositive ==
    \A i \in DOMAIN items : items[i].count >= 1

\* C9: created is the clock's reading when the order is added, and no step
\* changes the created of an order that is there before and after it.
C9_CreatedSetOnce ==
    [][/\ \A o \in DOMAIN orders' \ DOMAIN orders : orders'[o].created = now
       /\ \A o \in DOMAIN orders \cap DOMAIN orders' :
             orders'[o].created = orders[o].created]_vars

\* after an order was changed: both orders still carry the readings they were
\* created with, each earlier than the clock
C9_Witness ==
    /\ last = "change_order"
    /\ DOMAIN orders = {1, 2}
    /\ orders[1].created = 0 /\ orders[2].created = 1
    /\ now = 2

\* C10: for an actor that does not hold products.view_order the answer is the
\* same for every pk, existing, missing or malformed, and never not-found;
\* not-found is given only to an actor that holds the permission, for a pk
\* with no order.
C10_DenialBeforeLookup ==
    \A actor \in Actors :
        /\ ~HoldsViewOrder(actor) =>
              \A pk1, pk2 \in DetailPks :
                  /\ products_order_detail(actor, pk1) = products_order_detail(actor, pk2)
                  /\ products_order_detail(actor, pk1).status /= "not_found"
        /\ \A pk \in DetailPks :
              products_order_detail(actor, pk).status = "not_found" =>
                  /\ HoldsViewOrder(actor)
                  /\ pk.numeric /\ pk.value \notin DOMAIN orders

\* one order exists and one was deleted: staff without the permission get the
\* same refusal for both pks and for a malformed one, staff with it get the
\* page for one and not-found for the other
C10_Witness ==
    \E o1 \in DOMAIN orders, o2 \in (1..(nextOrder - 1)) \ DOMAIN orders :
        /\ \E actor \in Actors :
              /\ actor.is_active /\ actor.is_staff /\ ~HoldsViewOrder(actor)
              /\ products_order_detail(actor, NumericPk(o1)).status = "forbidden"
              /\ products_order_detail(actor, NumericPk(o2)).status = "forbidden"
              /\ products_order_detail(actor, MalformedPk).status = "forbidden"
        /\ \E actor \in Actors :
              /\ HoldsViewOrder(actor)
              /\ products_order_detail(actor, NumericPk(o1)).status = "ok"
              /\ products_order_detail(actor, NumericPk(o2)).status = "not_found"
              /\ products_order_detail(actor, MalformedPk).status = "server_error"
====
